---- MODULE Spec2Model ----
(***************************************************************************)
(* A model of the `documents` crate: the filename decomposer               *)
(* (parse_filepath), the collision resolver / creation-policy engine       *)
(* (Document::setup), handle construction (Document::at, at_path), the     *)
(* handle operations replace_with, append, alias and suggest_rename, and   *)
(* the session map (with, Map, IntoResult), running against a filesystem   *)
(* that other processes may change.                                        *)
(*                                                                         *)
(* Strings are sequences of one-character strings.  A PathBuf is a record  *)
(* [folder, file]: its parent and its final component.                     *)
(***************************************************************************)
EXTENDS Integers, Sequences, FiniteSets, TLC

\* ------------------------------------------------------------------ bounds
MaxDocs == 2      \* construction results the program holds
MaxRuns == 3      \* successive constructions of one filename (SpecRename)
MaxFiles == 1     \* files put into the folder by other processes
MaxContent == 2   \* bytes a file holds
MaxHandles == 1   \* construction results that are written through (SpecIO)
MaxRace == 2      \* resolutions of one name running at the same time (SpecRace)
MaxName == 6      \* characters of a filename given to the decomposer (SpecParse)
MaxSession == 3   \* construction results handed to with() (SpecWith)

\* ------------------------------------------------------- Option and strings
None == [some |-> FALSE]
Some(v) == [some |-> TRUE, val |-> v]

Digit == <<"0", "1", "2", "3", "4", "5", "6", "7", "8", "9">>
IsDigit(c) == \E i \in 1..10 : Digit[i] = c
DigitValue(c) == (CHOOSE i \in 1..10 : Digit[i] = c) - 1

\* i64's Display
RECURSIVE to_string(_)
to_string(n) ==
    IF n < 0 THEN <<"-">> \o to_string(0 - n)
    ELSE IF n < 10 THEN <<Digit[n + 1]>>
    ELSE to_string(n \div 10) \o <<Digit[(n % 10) + 1]>>

RECURSIVE DigitsValue(_)
DigitsValue(s) ==
    IF s = <<>> THEN 0
    ELSE 10 * DigitsValue(SubSeq(s, 1, Len(s) - 1)) + DigitValue(s[Len(s)])

\* str::parse::<i64>: an optional sign, then one or more decimal digits
parse(s) ==
    LET signed == Len(s) > 0 /\ s[1] \in {"+", "-"}
        digits == IF signed THEN Tail(s) ELSE s
    IN  IF Len(digits) > 0 /\ \A i \in 1..Len(digits) : IsDigit(digits[i])
        THEN Some(IF signed /\ s[1] = "-" THEN 0 - DigitsValue(digits)
                  ELSE DigitsValue(digits))
        ELSE None

\* str::rfind of a one-character pattern: the 0-based index of its last occurrence
rfind(s, c) ==
    IF \E i \in 1..Len(s) : s[i] = c
    THEN Some((CHOOSE i \in 1..Len(s) : s[i] = c /\ \A j \in (i + 1)..Len(s) : s[j] # c) - 1)
    ELSE None

\* str::strip_suffix
strip_suffix(s, suffix) ==
    IF Len(suffix) <= Len(s) /\ SubSeq(s, Len(s) - Len(suffix) + 1, Len(s)) = suffix
    THEN Some(SubSeq(s, 1, Len(s) - Len(suffix)))
    ELSE None

\* str::split_at(mid): panics when mid is past the end
split_at(s, mid) ==
    IF mid > Len(s) THEN [panic |-> TRUE, left |-> <<>>, right |-> <<>>]
    ELSE [panic |-> FALSE, left |-> SubSeq(s, 1, mid), right |-> SubSeq(s, mid + 1, Len(s))]

\* usize subtraction.  Below zero a debug build aborts on the overflow check and a
\* release build wraps around; the wrapped value lies past the end of every string,
\* so the split_at that consumes it aborts as well.  (The modulus stands for 2^64
\* within the range of the checker's integers.)
UsizeModulus == 2 ^ 30
usize_sub(a, b) == (a - b + UsizeModulus) % UsizeModulus

\* (mutant of path_extension: a leading "." starts an extension like any other)
path_extension_after_last_dot(file) ==
    LET dot == rfind(file, ".")
    IN  IF ~dot.some THEN None
        ELSE Some(SubSeq(file, dot.val + 2, Len(file)))

\* Path::extension of the final component: the text after the last ".", unless
\* there is no "." or nothing but the leading "." stands before it
path_extension(file) ==
    LET dot == rfind(file, ".")
    IN  IF file = <<".", ".">> \/ ~dot.some \/ dot.val = 0 THEN None
        ELSE Some(SubSeq(file, dot.val + 2, Len(file)))

\* ------------------------------------------------------------------- paths
\* the one folder of the model, and the path of a file in it
Folder == <<"d">>
InFolder(file) == Folder \o <<"/">> \o file

\* PathBuf::from(path): the text before the last "/" is the parent, the rest the
\* final component
PathBuf_from(s) ==
    LET slash == rfind(s, "/")
    IN  IF slash.some
        THEN [folder |-> SubSeq(s, 1, slash.val), file |-> SubSeq(s, slash.val + 2, Len(s))]
        ELSE [folder |-> <<>>, file |-> s]
\* FileSystemEntity for PathBuf
name(pathbuf) == pathbuf.file
path(pathbuf) == pathbuf.folder \o <<"/">> \o pathbuf.file
parent(pathbuf) == pathbuf.folder
join(folder, file) == [folder |-> folder, file |-> file]

\* -------------------------------------------------------------- decomposer
\* the results of parse_filepath: (name, duplicate_number, extension), or a panic
Parsed(stem, duplicate_number, extension) ==
    [panic |-> FALSE, name |-> stem, duplicate_number |-> duplicate_number,
     extension |-> extension]
ParsePanic == [panic |-> TRUE, name |-> <<>>, duplicate_number |-> None, extension |-> None]

\* "." + pathbuf.extension().unwrap_or_default(), None when that is the bare "."
dotted_extension(ext) ==
    IF ~ext.some \/ ext.val = <<>> THEN None ELSE Some(<<".">> \o ext.val)

\* the name without the extension, when the name ends with it
without_extension(file, extension) ==
    IF extension.some /\ strip_suffix(file, extension.val).some
    THEN strip_suffix(file, extension.val).val
    ELSE file

\* Ok(number): the name loses "(number)" when it ends with it
with_number(stem, number, extension) ==
    Parsed(IF strip_suffix(stem, <<"(">> \o to_string(number) \o <<")">>).some
           THEN strip_suffix(stem, <<"(">> \o to_string(number) \o <<")">>).val
           ELSE stem,
           Some(number), extension)

\* the text parsed as the counter: from the last "(", up to the last ")"
bracketed(first, length) ==
    IF first.panic THEN first ELSE split_at(first.right, length)

number_of(stem, between, extension) ==
    IF between.panic THEN ParsePanic
    ELSE IF parse(between.left).some
    THEN with_number(stem, parse(between.left).val, extension)
    ELSE Parsed(stem, None, extension)

duplicate_number_of(stem, open_bracket_index, close_bracket_index, extension) ==
    IF open_bracket_index.some /\ close_bracket_index.some
    THEN number_of(stem,
                   bracketed(split_at(stem, open_bracket_index.val),
                             usize_sub(close_bracket_index.val, open_bracket_index.val)),
                   extension)
    ELSE Parsed(stem, None, extension)

brackets_of(stem, extension) ==
    duplicate_number_of(stem, rfind(stem, "("), rfind(stem, ")"), extension)

parse_filepath(pathbuf) ==
    brackets_of(without_extension(name(pathbuf),
                                  dotted_extension(path_extension(name(pathbuf)))),
                dotted_extension(path_extension(name(pathbuf))))

\* -------------------------------------------------------------- filesystem
\* The folder every path of the model lies in is absent, a directory, or blocked
\* (something that is no directory stands at its path, so it cannot be made);
\* files maps each file of the folder to its content.
NoFiles == << >>
exists(d, pathbuf) ==
    pathbuf.folder = Folder /\ d.folder = "dir" /\ pathbuf.file \in DOMAIN d.files

\* std::fs::create_dir_all of the parent folder
create_dir_all(d, folder) ==
    IF d.folder = "blocked" THEN [ok |-> FALSE, disk |-> d]
    ELSE [ok |-> TRUE, disk |-> [d EXCEPT !.folder = "dir"]]

\* OpenOptions::new().read(false).write(true).create_new(true).open(pathbuf)
create_new(d, pathbuf) ==
    IF d.folder # "dir" \/ pathbuf.file \in DOMAIN d.files \/ pathbuf.file = <<>>
    THEN [ok |-> FALSE, disk |-> d]
    ELSE [ok |-> TRUE,
          disk |-> [d EXCEPT !.files = [f \in DOMAIN d.files \cup {pathbuf.file} |->
                                           IF f = pathbuf.file THEN <<>> ELSE d.files[f]]]]

\* ------------------------------------------------------------------ errors
\* Box<dyn Error>: a DocumentError with its argument, or an io::Error
DocumentError(kind, arg) == [kind |-> kind, arg |-> arg]
IoError == [kind |-> "io::Error", arg |-> <<>>]
NoError == [kind |-> "", arg |-> <<>>]

\* ---------------------------------------------------------------- Create
Create == {"No", "OnlyIfNotExists", "AutoRenameIfExists"}

\* (mutant of rename_loop: the counter advances by two)
RECURSIVE rename_loop_by_two(_, _, _, _, _)
rename_loop_by_two(d, pathbuf, stem, extension, duplicate_number) ==
    IF exists(d, pathbuf)
    THEN rename_loop_by_two(
             d,
             join(parent(pathbuf),
                  stem \o <<"(">> \o to_string(duplicate_number + 2) \o <<")">> \o extension),
             stem, extension, duplicate_number + 2)
    ELSE pathbuf

\* the while loop of Document::setup under Create::AutoRenameIfExists
RECURSIVE rename_loop(_, _, _, _, _)
rename_loop(d, pathbuf, stem, extension, duplicate_number) ==
    IF exists(d, pathbuf)
    THEN LET new_filename ==
                 stem \o <<"(">> \o to_string(duplicate_number + 1) \o <<")">>
                 \o (IF Len(extension) > 0 /\ extension # <<".">> THEN extension ELSE <<>>)
         IN  rename_loop(d, join(parent(pathbuf), new_filename), stem, extension,
                         duplicate_number + 1)
    ELSE pathbuf

\* the results of Document::setup: Ok(pathbuf), Err(error) or a panic, each with
\* the filesystem it leaves behind
SetupOk(pathbuf, d) ==
    [panic |-> FALSE, ok |-> TRUE, pathbuf |-> pathbuf, error |-> NoError, disk |-> d]
SetupErr(pathbuf, error, d) ==
    [panic |-> FALSE, ok |-> FALSE, pathbuf |-> pathbuf, error |-> error, disk |-> d]
SetupPanic(pathbuf, d) ==
    [panic |-> TRUE, ok |-> FALSE, pathbuf |-> pathbuf, error |-> NoError, disk |-> d]

\* (mutant of postcondition: the existence check is left out)
postcondition_unchecked(d, pathbuf, dry_run) == SetupOk(pathbuf, d)

\* the existence check that ends Document::setup
postcondition(d, pathbuf, dry_run) ==
    IF ~exists(d, pathbuf) /\ ~dry_run
    THEN SetupErr(pathbuf, DocumentError("FileNotFound", path(pathbuf)), d)
    ELSE SetupOk(pathbuf, d)

\* Create::OnlyIfNotExists
only_if_not_exists(d, pathbuf, dry_run) ==
    LET made == create_dir_all(d, parent(pathbuf))
        opened == create_new(made.disk, pathbuf)
    IN  IF ~made.ok
        THEN SetupErr(pathbuf,
                      DocumentError("CouldNotCreateParentFolder", parent(pathbuf)), d)
        ELSE IF ~exists(made.disk, pathbuf) /\ ~dry_run
        THEN IF opened.ok THEN postcondition(opened.disk, pathbuf, dry_run)
             ELSE SetupErr(pathbuf, IoError, made.disk)
        ELSE postcondition(made.disk, pathbuf, dry_run)

\* (mutant of auto_rename_if_exists: no collision loop, an existing file is taken)
auto_rename_without_loop(d, pathbuf, stem, extension, duplicate_number, dry_run) ==
    only_if_not_exists(d, pathbuf, dry_run)

\* (mutant of auto_rename_if_exists: the requested path is opened with truncate
\* before the free name is created)
auto_rename_truncating(d, pathbuf, stem, extension, duplicate_number, dry_run) ==
    LET made == create_dir_all(d, parent(pathbuf))
        wiped == IF exists(made.disk, pathbuf)
                 THEN [made.disk EXCEPT !.files[pathbuf.file] = <<>>] ELSE made.disk
        free == rename_loop(wiped, pathbuf, stem, extension, duplicate_number)
        opened == create_new(wiped, free)
    IN  IF ~made.ok
        THEN SetupErr(pathbuf,
                      DocumentError("CouldNotCreateParentFolder", parent(pathbuf)), d)
        ELSE IF ~dry_run
        THEN IF opened.ok THEN postcondition(opened.disk, free, dry_run)
             ELSE SetupErr(free, IoError, wiped)
        ELSE postcondition(wiped, free, dry_run)

\* Create::AutoRenameIfExists
auto_rename_if_exists(d, pathbuf, stem, extension, duplicate_number, dry_run) ==
    LET made == create_dir_all(d, parent(pathbuf))
        free == rename_loop(made.disk, pathbuf, stem, extension, duplicate_number)
        opened == create_new(made.disk, free)
    IN  IF ~made.ok
        THEN SetupErr(pathbuf,
                      DocumentError("CouldNotCreateParentFolder", parent(pathbuf)), d)
        ELSE IF ~dry_run
        THEN IF opened.ok THEN postcondition(opened.disk, free, dry_run)
             ELSE SetupErr(free, IoError, made.disk)
        ELSE postcondition(made.disk, free, dry_run)

\* (mutant of setup: Create::No falls into the creating branch)
setup_creating(d, pathbuf, create, dry_run) ==
    LET parsed == parse_filepath(pathbuf)
        duplicate_number == IF parsed.duplicate_number.some
                            THEN parsed.duplicate_number.val ELSE 0
        extension == IF parsed.extension.some THEN parsed.extension.val ELSE <<>>
    IN  IF parsed.panic THEN SetupPanic(pathbuf, d)
        ELSE IF create = "AutoRenameIfExists"
        THEN auto_rename_if_exists(d, pathbuf, parsed.name, extension, duplicate_number,
                                   dry_run)
        ELSE only_if_not_exists(d, pathbuf, dry_run)

\* Document::setup
setup(d, pathbuf, create, dry_run) ==
    LET parsed == parse_filepath(pathbuf)
        duplicate_number == IF parsed.duplicate_number.some
                            THEN parsed.duplicate_number.val ELSE 0
        extension == IF parsed.extension.some THEN parsed.extension.val ELSE <<>>
    IN  IF parsed.panic THEN SetupPanic(pathbuf, d)
        ELSE IF create = "OnlyIfNotExists" THEN only_if_not_exists(d, pathbuf, dry_run)
        ELSE IF create = "AutoRenameIfExists"
        THEN auto_rename_if_exists(d, pathbuf, parsed.name, extension, duplicate_number,
                                   dry_run)
        ELSE postcondition(d, pathbuf, dry_run)

\* -------------------------------------------------------------------- Mode
Mode == {"Read", "Replace", "Append", "ReadReplace", "ReadAppend"}
\* (mutant of readable: only Replace cannot read)
readable_unless_replace(mode) == mode # "Replace"
readable(mode) == mode \in {"Read", "ReadReplace", "ReadAppend"}
writable(mode) == mode \in {"Replace", "Append", "ReadAppend", "ReadReplace"}
appendable(mode) == mode \in {"Append", "ReadAppend"}

\* ---------------------------------------------------------------- Document
Document(alias, pathbuf, create_policy) ==
    [alias |-> alias, pathbuf |-> pathbuf, create_policy |-> create_policy]
NoDocument == Document(<<>>, [folder |-> <<>>, file |-> <<>>], "No")
\* Result<Document, Box<dyn Error>>
Ok(document) == [ok |-> TRUE, document |-> document, error |-> NoError]
Err(error) == [ok |-> FALSE, document |-> NoDocument, error |-> error]

\* OpenOptions::new().read(r).write(w).append(a) for a Mode
OpenOptions(permissions) ==
    [read |-> readable(permissions), write |-> writable(permissions),
     append |-> appendable(permissions)]

\* Document::open_file: OpenOptions::new().read(r).write(w).append(a).open(pathbuf)
\* opens an existing file and neither creates nor truncates one
open_file(d, document, permissions) ==
    IF exists(d, document.pathbuf)
    THEN [ok |-> TRUE, read |-> OpenOptions(permissions).read,
          append |-> OpenOptions(permissions).append,
          write |-> OpenOptions(permissions).write, error |-> NoError]
    ELSE [ok |-> FALSE, read |-> FALSE, append |-> FALSE, write |-> FALSE,
          error |-> DocumentError("CouldNotOpenFile", path(document.pathbuf))]

\* File::write_all on a freshly opened file: at the end when it was opened for
\* appending, otherwise from offset 0 over the bytes already there
write_all(old, content, append) ==
    IF append THEN old \o content
    ELSE content \o SubSeq(old, Len(content) + 1, Len(old))

\* ------------------------------------------------------------------ Folder
\* Folder::User(..) and Folder::Project(..) locations
Locations == {"Documents", "Pictures", "Videos", "Downloads", "Home", "Config", "Data"}
\* what the directories crate finds on this machine: no UserDirs / ProjectDirs at
\* all, the base directories but not the wanted one, or the wanted directory
Dirs == {"none", "no_dir", "found"}

\* Folder::into_pathbuf_result(filename): every directory that is found is the one
\* folder of the model
into_pathbuf_result(location, filename, dirs) ==
    IF location \in {"Config", "Data"}
    THEN IF dirs # "none" THEN [ok |-> TRUE, pathbuf |-> join(Folder, filename), error |-> NoError]
         ELSE [ok |-> FALSE, pathbuf |-> join(<<>>, <<>>),
               error |-> DocumentError("ProjectDirsNotFound", <<>>)]
    ELSE IF dirs = "none"
    THEN [ok |-> FALSE, pathbuf |-> join(<<>>, <<>>),
          error |-> DocumentError("UserDirsNotFound", <<>>)]
    ELSE IF dirs = "no_dir" /\ location # "Home"
    THEN [ok |-> FALSE, pathbuf |-> join(<<>>, <<>>),
          error |-> DocumentError(location \o "DirNotFound", <<>>)]
    ELSE [ok |-> TRUE, pathbuf |-> join(Folder, filename), error |-> NoError]

\* -------------------------------------------------------------------- Map
\* HashMap<String, Document>
EmptyMap == << >>
insert(document_map, key, document) ==
    [k \in DOMAIN document_map \cup {key} |->
        IF k = key THEN document ELSE document_map[k]]

\* (mutant of index: an absent key gives a default handle)
index_or_default(document_map, key) ==
    IF key \in DOMAIN document_map
    THEN [panic |-> FALSE, document |-> document_map[key]]
    ELSE [panic |-> FALSE, document |-> NoDocument]

\* Map::index: &self.0[key] panics on an absent key
index(document_map, key) ==
    IF key \in DOMAIN document_map
    THEN [panic |-> FALSE, document |-> document_map[key]]
    ELSE [panic |-> TRUE, document |-> NoDocument]

\* Map::index_mut: self.0.get_mut(key).unwrap() panics on an absent key
index_mut(document_map, key) ==
    IF key \in DOMAIN document_map
    THEN [panic |-> FALSE, document |-> document_map[key]]
    ELSE [panic |-> TRUE, document |-> NoDocument]

\* ------------------------------------------------------------- IntoResult
\* what a closure returns: (), Some(_), None, Ok(_), Err(error)
Returns == {"()", "Some", "None", "Ok", "Err"}
NoneError == [kind |-> "NoneError", arg |-> <<>>]
ClosureError == [kind |-> "closure", arg |-> <<>>]

\* (mutant of into_result: None counts as success)
into_result_none_ok(return) ==
    IF return = "Err" THEN [ok |-> FALSE, error |-> ClosureError]
    ELSE [ok |-> TRUE, error |-> NoError]

\* IntoResult::into_result for (), Option<T> and Result<T, Box<dyn Error>>
into_result(return) ==
    IF return = "()" THEN [ok |-> TRUE, error |-> NoError]
    ELSE IF return = "Some" THEN [ok |-> TRUE, error |-> NoError]
    ELSE IF return = "None" THEN [ok |-> FALSE, error |-> NoneError]
    ELSE IF return = "Ok" THEN [ok |-> TRUE, error |-> NoError]
    ELSE [ok |-> FALSE, error |-> ClosureError]

\* ------------------------------------------------------------------- with
\* (mutant of with_loop: a failed result is passed over)
RECURSIVE with_loop_skipping(_, _, _)
with_loop_skipping(results, i, document_map) ==
    IF i > Len(results) THEN [ok |-> TRUE, map |-> document_map, error |-> NoError]
    ELSE IF ~results[i].ok THEN with_loop_skipping(results, i + 1, document_map)
    ELSE with_loop_skipping(results, i + 1,
                   IF results[i].document.alias # <<"_">>
                   THEN insert(document_map, results[i].document.alias, results[i].document)
                   ELSE document_map)

\* (mutant of with_loop: a handle aliased "_" is inserted like any other)
RECURSIVE with_loop_keeping_all(_, _, _)
with_loop_keeping_all(results, i, document_map) ==
    IF i > Len(results) THEN [ok |-> TRUE, map |-> document_map, error |-> NoError]
    ELSE IF ~results[i].ok THEN [ok |-> FALSE, map |-> document_map, error |-> results[i].error]
    ELSE with_loop_keeping_all(results, i + 1,
                   insert(document_map, results[i].document.alias, results[i].document))

\* (mutant of with_loop: the first handle under an alias is kept)
RECURSIVE with_loop_first_wins(_, _, _)
with_loop_first_wins(results, i, document_map) ==
    IF i > Len(results) THEN [ok |-> TRUE, map |-> document_map, error |-> NoError]
    ELSE IF ~results[i].ok THEN [ok |-> FALSE, map |-> document_map, error |-> results[i].error]
    ELSE with_loop_first_wins(results, i + 1,
                   IF results[i].document.alias # <<"_">>
                      /\ results[i].document.alias \notin DOMAIN document_map
                   THEN insert(document_map, results[i].document.alias, results[i].document)
                   ELSE document_map)

\* the for loop of with(): the map built from results[i..], or the first failure
RECURSIVE with_loop(_, _, _)
with_loop(results, i, document_map) ==
    IF i > Len(results) THEN [ok |-> TRUE, map |-> document_map, error |-> NoError]
    ELSE IF ~results[i].ok THEN [ok |-> FALSE, map |-> document_map, error |-> results[i].error]
    ELSE with_loop(results, i + 1,
                   IF results[i].document.alias # <<"_">>
                   THEN insert(document_map, results[i].document.alias, results[i].document)
                   ELSE document_map)

\* ------------------------------------------------------------------ inputs
\* filenames the program asks for: plain, carrying a duplicate counter, without an
\* extension, and with its last ")" before its last "("
PlainFile == <<"f", ".", "t">>
CountedFile == <<"f", "(", "0", ")", ".", "t">>
BareFile == <<"f">>
RenamedFile == <<"f", "(", "1", ")", ".", "t">>
SwappedFile == <<"f", ")", "(", ".", "t">>
Filenames == {PlainFile, CountedFile, BareFile, SwappedFile}
DefaultAlias == <<"a">>
Aliases == {DefaultAlias, <<"_">>}
Bytes == {"x", "y"}
Contents == UNION { [1..n -> Bytes] : n \in 0..MaxContent }
\* the filenames the decomposer is given: every name of up to MaxName of these
\* characters that is a file name ("." and ".." name directories)
Alphabet == {"f", "1", "(", ")", "."}
Names ==
    UNION { [1..n -> Alphabet] : n \in 1..MaxName } \ {<<".">>, <<".", ".">>}
\* the locations Document::at is asked for: a user directory and a project directory
SessionLocations == {"Pictures", "Data"}
\* the keys a closure looks up, and the closures handed to with(): one that only
\* returns, and ones that index the map, read or mutable, and return ()
Keys == Aliases \cup {PlainFile}
Closures ==
    [access : {"none"}, key : {<<>>}, return : Returns]
    \cup [access : {"index", "index_mut"}, key : Keys, return : {"()"}]

\* --------------------------------------------------------------------- state
VARIABLES
    disk,       \* the filesystem: [folder, files]
    documents,  \* the construction results the program holds, in order
    last,       \* the latest operation: its arguments and what it returned
    resolutions \* Document::setup calls in flight, one per process: where each stands

vars == <<disk, documents, last, resolutions>>

Event(op, i, arg, create, panic, ok, value, error) ==
    [op |-> op, index |-> i, arg |-> arg, create |-> create, panic |-> panic,
     ok |-> ok, value |-> value, error |-> error]
External == Event("external", 0, <<>>, "No", FALSE, TRUE, <<>>, NoError)
\* a construction: the alias asked for and what Document::setup made of it
Constructing(op, arg, a, create, r) ==
    [op |-> op, index |-> 0, arg |-> arg, create |-> create, panic |-> r.panic,
     ok |-> r.ok, value |-> IF r.ok THEN path(r.pathbuf) ELSE <<>>, error |-> r.error,
     alias |-> a]
\* Document::at: the construction, with the location asked for and what the
\* directories crate finds for it
Locating(location, dirs, filename, create, r) ==
    [op |-> "at", index |-> 0, arg |-> filename, create |-> create, panic |-> r.panic,
     ok |-> r.ok, value |-> IF r.ok THEN path(r.pathbuf) ELSE <<>>, error |-> r.error,
     alias |-> filename, location |-> location, dirs |-> dirs]
\* a call of parse_filepath: the extension it finds, and the tuple it returns
ParseEvent(file, extension, parsed) ==
    [op |-> "parse_filepath", index |-> 0, arg |-> file, create |-> "No",
     panic |-> parsed.panic, ok |-> ~parsed.panic, value |-> <<>>, error |-> NoError,
     extension |-> extension, parsed |-> parsed]
\* Document::file(permissions): the options the file was opened with
FileEvent(i, permissions, options, opened) ==
    [op |-> "file", index |-> i, arg |-> permissions, create |-> "No", panic |-> FALSE,
     ok |-> opened.ok, value |-> <<>>, error |-> opened.error,
     options |-> options, opened |-> opened]
\* a run of with(): whether the closure was invoked, the map it was given, the
\* handle its lookup returned and the errors printed
WithEvent(closure, panic, ok, invoked, map, got, printed) ==
    [op |-> "with", index |-> 0, arg |-> closure, create |-> "No", panic |-> panic,
     ok |-> ok, value |-> <<>>, error |-> NoError,
     invoked |-> invoked, map |-> map, got |-> got, printed |-> printed]

\* the processes that resolve a name at the same time, and a call of
\* Document::setup(pathbuf, Create::AutoRenameIfExists, false) in flight: the line it
\* stands at, its local variables, and its result once it has returned
Processes == 1..MaxRace
Resolution(pc, pathbuf, stem, extension, duplicate_number, result) ==
    [pc |-> pc, pathbuf |-> pathbuf, stem |-> stem, extension |-> extension,
     duplicate_number |-> duplicate_number, result |-> result]
NotCalled == Resolution("idle", join(<<>>, <<>>), <<>>, <<>>, 0, Err(NoError))

Init ==
    /\ disk \in [folder : {"absent", "dir", "blocked"}, files : {NoFiles}]
    /\ documents = <<>>
    /\ last = External
    /\ resolutions = [p \in Processes |-> NotCalled]

\* a panic ends the program
running == ~last.panic

\* Document::at_path(path, alias, create)
at_path(p, a, create) ==
    LET r == setup(disk, PathBuf_from(p), create, FALSE)
        result == IF r.ok THEN Ok(Document(a, r.pathbuf, create)) ELSE Err(r.error)
    IN  /\ running
        /\ UNCHANGED resolutions
        /\ disk' = r.disk
        /\ documents' = IF r.panic THEN documents ELSE Append(documents, result)
        /\ last' = Constructing("at_path", p, a, create, r)

\* (mutant of at: the alias is the name of the resolved path)
at_resolved_name(location, filename, create, dirs) ==
    LET located == into_pathbuf_result(location, filename, dirs)
        r == IF located.ok THEN setup(disk, located.pathbuf, create, FALSE)
             ELSE SetupErr(located.pathbuf, located.error, disk)
        result == IF r.ok THEN Ok(Document(name(r.pathbuf), r.pathbuf, create))
                  ELSE Err(r.error)
    IN  /\ running
        /\ UNCHANGED resolutions
        /\ disk' = r.disk
        /\ documents' = IF r.panic THEN documents ELSE Append(documents, result)
        /\ last' = Constructing("at", filename, filename, create, r)

\* (mutant of at: the file is set up in the folder before the location is resolved)
at_setup_first(location, filename, create, dirs) ==
    LET located == into_pathbuf_result(location, filename, dirs)
        original_name == name(located.pathbuf)
        r == setup(disk, join(Folder, filename), create, FALSE)
        result == IF ~located.ok THEN Err(located.error)
                  ELSE IF r.ok THEN Ok(Document(original_name, r.pathbuf, create))
                  ELSE Err(r.error)
    IN  /\ running
        /\ UNCHANGED resolutions
        /\ disk' = r.disk
        /\ documents' = IF r.panic THEN documents ELSE Append(documents, result)
        /\ last' = Locating(location, dirs, filename, create,
                            IF located.ok \/ r.panic THEN r
                            ELSE SetupErr(located.pathbuf, located.error, r.disk))

\* Document::at(location, filename, create)
at(location, filename, create, dirs) ==
    LET located == into_pathbuf_result(location, filename, dirs)
        original_name == name(located.pathbuf)
        r == IF located.ok THEN setup(disk, located.pathbuf, create, FALSE)
             ELSE SetupErr(located.pathbuf, located.error, disk)
        result == IF r.ok THEN Ok(Document(original_name, r.pathbuf, create))
                  ELSE Err(r.error)
    IN  /\ running
        /\ UNCHANGED resolutions
        /\ disk' = r.disk
        /\ documents' = IF r.panic THEN documents ELSE Append(documents, result)
        /\ last' = Locating(location, dirs, filename, create, r)

\* (mutant of with: a failed entry makes with() remove the files of the others)
with_rolling_back(closure) ==
    LET built == with_loop(documents, 1, EmptyMap)
        got == IF closure.access = "index" THEN index(built.map, closure.key)
               ELSE IF closure.access = "index_mut" THEN index_mut(built.map, closure.key)
               ELSE [panic |-> FALSE, document |-> NoDocument]
        returned == into_result(closure.return)
        made == {documents[i].document.pathbuf.file :
                     i \in {j \in 1..Len(documents) : documents[j].ok}}
    IN  /\ running
        /\ UNCHANGED resolutions
        /\ last' = IF ~built.ok
                   THEN WithEvent(closure, FALSE, FALSE, 0, None, NoDocument, <<built.error>>)
                   ELSE IF got.panic
                   THEN WithEvent(closure, TRUE, FALSE, 1, Some(built.map), NoDocument, <<>>)
                   ELSE WithEvent(closure, FALSE, returned.ok, 1, Some(built.map),
                                  got.document,
                                  IF returned.ok THEN <<>> ELSE <<returned.error>>)
        /\ disk' = IF built.ok THEN disk
                   ELSE [disk EXCEPT !.files = [f \in DOMAIN disk.files \ made |->
                                                   disk.files[f]]]
        /\ UNCHANGED documents

\* with(&documents, closure): the results the program holds are the slice
with(closure) ==
    LET built == with_loop(documents, 1, EmptyMap)
        got == IF closure.access = "index" THEN index(built.map, closure.key)
               ELSE IF closure.access = "index_mut" THEN index_mut(built.map, closure.key)
               ELSE [panic |-> FALSE, document |-> NoDocument]
        returned == into_result(closure.return)
    IN  /\ running
        /\ UNCHANGED resolutions
        /\ last' = IF ~built.ok
                   THEN WithEvent(closure, FALSE, FALSE, 0, None, NoDocument, <<built.error>>)
                   ELSE IF got.panic
                   THEN WithEvent(closure, TRUE, FALSE, 1, Some(built.map), NoDocument, <<>>)
                   ELSE WithEvent(closure, FALSE, returned.ok, 1, Some(built.map),
                                  got.document,
                                  IF returned.ok THEN <<>> ELSE <<returned.error>>)
        /\ UNCHANGED <<disk, documents>>

\* Document::replace_with(content) on the i-th handle
replace_with(i, content) ==
    LET document == documents[i].document
        file == open_file(disk, document, "Replace")
    IN  /\ running
        /\ UNCHANGED resolutions
        /\ documents[i].ok
        /\ disk' = IF file.ok
                   THEN [disk EXCEPT !.files[document.pathbuf.file] =
                                         write_all(@, content, file.append)]
                   ELSE disk
        /\ last' = Event("replace_with", i, content, "No", FALSE, file.ok, <<>>, file.error)
        /\ UNCHANGED documents

\* Document::append(content) on the i-th handle
append(i, content) ==
    LET document == documents[i].document
        file == open_file(disk, document, "Append")
    IN  /\ running
        /\ UNCHANGED resolutions
        /\ documents[i].ok
        /\ file.ok => Len(disk.files[document.pathbuf.file]) + Len(content) <= MaxContent
        /\ disk' = IF file.ok
                   THEN [disk EXCEPT !.files[document.pathbuf.file] =
                                         write_all(@, content, file.append)]
                   ELSE disk
        /\ last' = Event("append", i, content, "No", FALSE, file.ok, <<>>, file.error)
        /\ UNCHANGED documents

\* Document::file(permissions) on the i-th handle: a File opened with the Mode's
\* options; nothing is written
Document_file(i, permissions) ==
    /\ running
    /\ documents[i].ok
    /\ last' = FileEvent(i, permissions, OpenOptions(permissions),
                         open_file(disk, documents[i].document, permissions))
    /\ UNCHANGED <<disk, documents, resolutions>>

\* (mutant of alias: the handle is rebuilt with the default policy)
alias_rebuilding(i, a) ==
    /\ running
    /\ UNCHANGED resolutions
    /\ documents' = [documents EXCEPT ![i] =
                        IF @.ok THEN Ok(Document(a, @.document.pathbuf, "No")) ELSE @]
    /\ last' = Event("alias", i, a, "No", FALSE, documents[i].ok, <<>>, documents[i].error)
    /\ UNCHANGED disk

\* Result<Document, Box<dyn Error>>::alias(alias) on the i-th result
alias(i, a) ==
    /\ running
    /\ UNCHANGED resolutions
    /\ documents' = [documents EXCEPT ![i] =
                        IF @.ok THEN Ok([@.document EXCEPT !.alias = a]) ELSE @]
    /\ last' = Event("alias", i, a, "No", FALSE, documents[i].ok, <<>>, documents[i].error)
    /\ UNCHANGED disk

\* (mutant of failed_rename: every failure gives the empty string)
failed_rename_empty(error) == <<>>

\* suggest_rename on Err(error): error.downcast_ref::<DocumentError>(); an io::Error
\* does not downcast
failed_rename(error) ==
    IF error.kind = "FileNotFound" THEN error.arg ELSE <<>>

\* Result<Document, Box<dyn Error>>::suggest_rename() on the i-th result
suggest_rename(i) ==
    LET r == setup(disk, documents[i].document.pathbuf, "AutoRenameIfExists", TRUE)
        value == IF documents[i].ok
                 THEN IF r.ok THEN path(r.pathbuf) ELSE <<>>
                 ELSE failed_rename(documents[i].error)
    IN  /\ running
        /\ UNCHANGED resolutions
        /\ disk' = IF documents[i].ok THEN r.disk ELSE disk
        /\ last' = Event("suggest_rename", i, <<>>, "No", documents[i].ok /\ r.panic,
                         documents[i].ok, value, NoError)
        /\ UNCHANGED documents

\* parse_filepath(pathbuf), as Document::setup calls it first
call_parse_filepath(pathbuf) ==
    /\ running
    /\ last' = ParseEvent(name(pathbuf),
                          dotted_extension(path_extension(name(pathbuf))),
                          parse_filepath(pathbuf))
    /\ UNCHANGED <<disk, documents, resolutions>>

\* ------------------------------------- Document::setup, one line at a time
\* Process p calls Document::setup(pathbuf, Create::AutoRenameIfExists, false):
\* parse_filepath, then create_dir_all of the parent folder.
setup_enter(p, pathbuf) ==
    LET parsed == parse_filepath(pathbuf)
        duplicate_number == IF parsed.duplicate_number.some
                            THEN parsed.duplicate_number.val ELSE 0
        extension == IF parsed.extension.some THEN parsed.extension.val ELSE <<>>
        made == create_dir_all(disk, parent(pathbuf))
    IN  /\ resolutions[p].pc = "idle"
        /\ ~parsed.panic
        /\ disk' = made.disk
        /\ resolutions' = [resolutions EXCEPT ![p] =
               IF made.ok
               THEN Resolution("while", pathbuf, parsed.name, extension, duplicate_number,
                               Err(NoError))
               ELSE Resolution("returned", pathbuf, parsed.name, extension, duplicate_number,
                               Err(DocumentError("CouldNotCreateParentFolder",
                                                 parent(pathbuf))))]
        /\ UNCHANGED <<documents, last>>

\* (mutant of setup_while: the loop body leaves the counter and the path alone)
setup_while_same_candidate(p) ==
    LET r == resolutions[p]
    IN  /\ r.pc = "while"
        /\ resolutions' = [resolutions EXCEPT ![p] =
               IF exists(disk, r.pathbuf) THEN r ELSE [r EXCEPT !.pc = "open"]]
        /\ UNCHANGED <<disk, documents, last>>

\* while pathbuf.exists(): one test of the condition and, when it holds, one turn
\* of the loop body
setup_while(p) ==
    LET r == resolutions[p]
        new_filename ==
            r.stem \o <<"(">> \o to_string(r.duplicate_number + 1) \o <<")">>
            \o (IF Len(r.extension) > 0 /\ r.extension # <<".">> THEN r.extension ELSE <<>>)
    IN  /\ r.pc = "while"
        /\ resolutions' = [resolutions EXCEPT ![p] =
               IF exists(disk, r.pathbuf)
               THEN [r EXCEPT !.duplicate_number = @ + 1,
                              !.pathbuf = join(parent(r.pathbuf), new_filename)]
               ELSE [r EXCEPT !.pc = "open"]]
        /\ UNCHANGED <<disk, documents, last>>

\* (mutant of setup_open: a failed create goes back to the loop)
setup_open_retrying(p) ==
    LET r == resolutions[p]
        opened == create_new(disk, r.pathbuf)
    IN  /\ r.pc = "open"
        /\ disk' = opened.disk
        /\ resolutions' = [resolutions EXCEPT ![p] =
               IF opened.ok THEN [r EXCEPT !.pc = "postcondition"]
               ELSE [r EXCEPT !.pc = "while"]]
        /\ UNCHANGED <<documents, last>>

\* OpenOptions::new().read(false).write(true).create_new(true).open(&pathbuf)?
setup_open(p) ==
    LET r == resolutions[p]
        opened == create_new(disk, r.pathbuf)
    IN  /\ r.pc = "open"
        /\ disk' = opened.disk
        /\ resolutions' = [resolutions EXCEPT ![p] =
               IF opened.ok THEN [r EXCEPT !.pc = "postcondition"]
               ELSE [r EXCEPT !.pc = "returned", !.result = Err(IoError)]]
        /\ UNCHANGED <<documents, last>>

\* the existence check that ends Document::setup, and its return
setup_return(p) ==
    LET r == resolutions[p]
        checked == postcondition(disk, r.pathbuf, FALSE)
    IN  /\ r.pc = "postcondition"
        /\ resolutions' = [resolutions EXCEPT ![p] =
               [r EXCEPT !.pc = "returned",
                         !.result = IF checked.ok
                                    THEN Ok(Document(DefaultAlias, r.pathbuf,
                                                     "AutoRenameIfExists"))
                                    ELSE Err(checked.error)]]
        /\ UNCHANGED <<disk, documents, last>>

\* ------------------------------------------------------- other processes
ExternalCreate(file) ==
    /\ running
    /\ UNCHANGED resolutions
    /\ disk.folder = "dir"
    /\ file \notin DOMAIN disk.files
    /\ Cardinality(DOMAIN disk.files) < MaxFiles
    /\ disk' = create_new(disk, join(Folder, file)).disk
    /\ last' = External
    /\ UNCHANGED documents

ExternalRemove(file) ==
    /\ running
    /\ UNCHANGED resolutions
    /\ file \in DOMAIN disk.files
    /\ disk' = [disk EXCEPT !.files = [f \in DOMAIN disk.files \ {file} |-> disk.files[f]]]
    /\ last' = External
    /\ UNCHANGED documents

\* another process writes a file of the folder
ExternalWrite(file, content) ==
    /\ running
    /\ UNCHANGED resolutions
    /\ file \in DOMAIN disk.files
    /\ disk.files[file] = <<>>
    /\ Cardinality({f \in DOMAIN disk.files : disk.files[f] # <<>>}) < MaxFiles
    /\ disk' = [disk EXCEPT !.files[file] = content]
    /\ last' = External
    /\ UNCHANGED documents

ExternalRemoveFolder ==
    /\ running
    /\ UNCHANGED resolutions
    /\ disk.folder = "dir"
    /\ disk' = [folder |-> "absent", files |-> NoFiles]
    /\ last' = External
    /\ UNCHANGED documents

ExternalBlockFolder ==
    /\ running
    /\ UNCHANGED resolutions
    /\ disk.folder = "absent"
    /\ disk' = [disk EXCEPT !.folder = "blocked"]
    /\ last' = External
    /\ UNCHANGED documents

ExternalUnblockFolder ==
    /\ running
    /\ UNCHANGED resolutions
    /\ disk.folder = "blocked"
    /\ disk' = [disk EXCEPT !.folder = "absent"]
    /\ last' = External
    /\ UNCHANGED documents

\* ---------------------------------------------------------- specifications
\* Spec: constructions of every filename under every policy, rename suggestions,
\* and other processes changing the folder.
Next ==
    \/ /\ Len(documents) < MaxDocs
       /\ \E file \in Filenames, create \in Create :
              at_path(InFolder(file), DefaultAlias, create)
    \/ \E i \in 1..Len(documents) : suggest_rename(i)
    \/ \E file \in Filenames : ExternalCreate(file)
    \/ \E file \in DOMAIN disk.files : ExternalRemove(file)
    \/ ExternalRemoveFolder
    \/ ExternalBlockFolder
    \/ ExternalUnblockFolder

Spec == Init /\ [][Next]_vars

\* SpecRename: one filename constructed again and again under AutoRenameIfExists,
\* while files are removed behind the program's back.
NextRename ==
    \/ /\ Len(documents) < MaxRuns
       /\ at_path(InFolder(PlainFile), DefaultAlias, "AutoRenameIfExists")
    \/ \E i \in 1..Len(documents) : suggest_rename(i)
    \/ \E file \in DOMAIN disk.files : ExternalRemove(file)
    \/ ExternalRemoveFolder

SpecRename == Init /\ [][NextRename]_vars

\* SpecIO: handles that are written through.
NextIO ==
    \/ /\ Len(documents) < MaxHandles
       /\ \E file \in {PlainFile, SwappedFile}, create \in Create :
              at_path(InFolder(file), DefaultAlias, create)
    \/ \E i \in 1..Len(documents), content \in Contents : replace_with(i, content)
    \/ \E i \in 1..Len(documents), content \in Contents : append(i, content)
    \/ \E i \in 1..Len(documents), permissions \in Mode : Document_file(i, permissions)
    \/ \E file \in DOMAIN disk.files : ExternalRemove(file)
    \/ \E file \in {PlainFile} : ExternalCreate(file)

SpecIO == Init /\ [][NextIO]_vars

\* SpecWith: results of both constructors, re-aliased, handed to with().
NextWith ==
    \/ /\ Len(documents) < MaxSession
       /\ \E a \in Aliases, create \in Create :
              at_path(InFolder(PlainFile), a, create)
    \/ /\ Len(documents) < MaxSession
       /\ \E location \in SessionLocations, dirs \in Dirs, create \in Create :
              at(location, PlainFile, create, dirs)
    \/ \E i \in 1..Len(documents), a \in Aliases : alias(i, a)
    \/ \E closure \in Closures : with(closure)

SpecWith == Init /\ [][NextWith]_vars

\* SpecRace: processes resolve the same name under AutoRenameIfExists, one line
\* of Document::setup at a time, while another process creates files.
NextRace ==
    \/ \E p \in Processes : setup_enter(p, join(Folder, PlainFile))
    \/ \E p \in Processes : setup_while(p)
    \/ \E p \in Processes : setup_open(p)
    \/ \E p \in Processes : setup_return(p)
    \/ \E file \in {PlainFile, RenamedFile} : ExternalCreate(file)

SpecRace == Init /\ [][NextRace]_vars

\* SpecRaceFair: SpecRace where a call that has started keeps running: the thread
\* inside Document::setup executes its next line.
SpecRaceFair ==
    SpecRace /\ \A p \in Processes :
                    WF_vars(setup_while(p) \/ setup_open(p) \/ setup_return(p))

\* SpecFrame: constructions under AutoRenameIfExists in a folder whose files other
\* processes create, fill and remove.
NextFrame ==
    \/ /\ Len(documents) < MaxDocs
       /\ \E file \in {PlainFile, CountedFile} :
              at_path(InFolder(file), DefaultAlias, "AutoRenameIfExists")
    \/ \E file \in {PlainFile, RenamedFile} : ExternalCreate(file)
    \/ \E file \in DOMAIN disk.files, content \in Contents \ {<<>>} :
           ExternalWrite(file, content)
    \/ \E file \in DOMAIN disk.files : ExternalRemove(file)

SpecFrame == Init /\ [][NextFrame]_vars

\* SpecRoles: constructions at every well-known location, on machines where the
\* location is found, is missing, or no user or project directories exist at all.
NextRoles ==
    \/ /\ Len(documents) < MaxDocs
       /\ \E location \in Locations, dirs \in Dirs, create \in Create :
              at(location, PlainFile, create, dirs)
    \/ \E file \in {PlainFile} : ExternalCreate(file)
    \/ \E file \in DOMAIN disk.files : ExternalRemove(file)
    \/ ExternalRemoveFolder

SpecRoles == Init /\ [][NextRoles]_vars

\* SpecParse: the decomposer applied to every filename, one call in each run.
NextParse ==
    /\ last = External
    /\ \E file \in Names : call_parse_filepath(join(Folder, file))

SpecParse == Init /\ [][NextParse]_vars

\* ==================================================================== claims
\* the construction that has just returned: its requested path, and the handle it
\* appended
Constructed(create) == last'.op = "at_path" /\ last'.create = create
Requested == PathBuf_from(last'.arg)
Returned == documents'[Len(documents')]
\* f.t, f(1).t, f(2).t, ...
Renamed(k) == IF k = 0 THEN PlainFile
              ELSE <<"f", "(">> \o to_string(k) \o <<")", ".", "t">>
\* f(0).t, f(1).t, f(2).t, ...
Counted(k) == <<"f", "(">> \o to_string(k) \o <<")", ".", "t">>
FileOf(i) == documents[i].document.pathbuf.file

\* C1: from a folder holding none of f.t, f(1).t, ..., n successive constructions of
\* f.t under AutoRenameIfExists all succeed, return f.t, f(1).t, ..., f(n-1).t in this
\* order, and then exactly those n files exist.  (Under SpecRename the folder starts
\* empty and files only come from these constructions, so "no file was removed in
\* between" is "there are as many files as results".)
C1_SuccessiveRenames ==
    /\ disk.folder # "blocked" => \A i \in 1..Len(documents) : documents[i].ok
    /\ Cardinality(DOMAIN disk.files) = Len(documents) =>
           /\ \A i \in 1..Len(documents) :
                  documents[i].ok /\ documents[i].document.pathbuf = join(Folder, Renamed(i - 1))
           /\ DOMAIN disk.files = {Renamed(k) : k \in 0..(Len(documents) - 1)}
C1_Witness ==
    /\ Len(documents) = 3
    /\ \A i \in 1..3 : documents[i].ok /\ FileOf(i) = Renamed(i - 1)
    /\ DOMAIN disk.files = {Renamed(0), Renamed(1), Renamed(2)}

\* C2: a successful construction under AutoRenameIfExists returns a path at which
\* nothing existed when the call started; so it never returns the path of an earlier
\* result whose file is still there.
C2_FreshPath ==
    [][Constructed("AutoRenameIfExists") /\ last'.ok =>
           /\ ~exists(disk, PathBuf_from(last'.value))
           /\ Returned.ok /\ path(Returned.document.pathbuf) = last'.value
           /\ \A i \in 1..Len(documents) :
                  documents[i].ok /\ exists(disk, documents[i].document.pathbuf)
                  => documents[i].document.pathbuf # Returned.document.pathbuf]_vars
C2_Witness ==
    /\ Len(documents) = 2
    /\ last.op = "at_path" /\ last.arg = InFolder(PlainFile)
    /\ \A i \in 1..2 : documents[i].ok /\ documents[i].document.create_policy = "AutoRenameIfExists"
    /\ FileOf(1) = PlainFile /\ FileOf(2) = Renamed(1)
    /\ {PlainFile, Renamed(1)} \subseteq DOMAIN disk.files

\* C3 (as claimed): with f(0).t .. f(N-1).t all there and f(N).t not, asking for
\* f(k).t, k < N, under AutoRenameIfExists selects f(N).t.
C3_SelectsNextCounter ==
    [][\A N \in 1..MaxRuns : \A k \in 0..(N - 1) :
           /\ Constructed("AutoRenameIfExists")
           /\ last'.arg = InFolder(Counted(k))
           /\ \A j \in 0..(N - 1) : exists(disk, join(Folder, Counted(j)))
           /\ ~exists(disk, join(Folder, Counted(N)))
           => last'.ok /\ last'.value = InFolder(Counted(N))]_vars

\* C4 (as claimed): after replace_with(bytes) succeeds the file holds exactly bytes.
C4_ReplaceWipes ==
    [][last'.op = "replace_with" /\ last'.ok =>
           disk'.files[FileOf(last'.index)] = last'.arg]_vars

\* C5 (as claimed): under Create::No a construction against a missing path fails
\* with FileNotFound carrying that path, and against an existing path succeeds with
\* exactly that path.
C5_NeverPolicy ==
    [][Constructed("No") =>
           IF exists(disk, Requested)
           THEN last'.ok /\ Returned.ok /\ Returned.document.pathbuf = Requested
           ELSE /\ ~last'.panic /\ ~last'.ok /\ ~Returned.ok
                /\ Returned.error = DocumentError("FileNotFound", last'.arg)]_vars

\* C5, on every filename parse_filepath returns from: the same statement holds.
C5_UnlessPanic ==
    [][Constructed("No") /\ ~last'.panic =>
           IF exists(disk, Requested)
           THEN last'.ok /\ Returned.ok /\ Returned.document.pathbuf = Requested
           ELSE /\ ~last'.ok /\ ~Returned.ok
                /\ Returned.error = DocumentError("FileNotFound", last'.arg)]_vars

\* C6: a construction under Create::No leaves the filesystem as it was, whether it
\* succeeds or fails.
C6_NeverTouchesDisk == [][Constructed("No") => disk' = disk]_vars
C6_Witness ==
    /\ last.op = "at_path" /\ last.create = "No" /\ ~last.ok /\ ~last.panic
    /\ disk.folder = "absent"
    /\ \E i \in 1..Len(documents) : documents[i].ok /\ documents[i].document.create_policy = "No"

\* C7 (as claimed): under OnlyIfNotExists, when the parent folder can be made, a
\* construction succeeds with the requested path; it creates the file, empty, when
\* nothing was there and leaves the filesystem as it was when the file was there.
C7_CreateIfAbsentIdempotent ==
    [][Constructed("OnlyIfNotExists") /\ disk.folder # "blocked" =>
           /\ last'.ok /\ Returned.ok /\ Returned.document.pathbuf = Requested
           /\ exists(disk, Requested) => disk' = disk
           /\ ~exists(disk, Requested) =>
                  /\ DOMAIN disk'.files = DOMAIN disk.files \cup {Requested.file}
                  /\ disk'.files[Requested.file] = <<>>
                  /\ \A f \in DOMAIN disk.files : disk'.files[f] = disk.files[f]]_vars

\* C7, on every filename parse_filepath returns from: the same statement holds.
C7_UnlessPanic ==
    [][Constructed("OnlyIfNotExists") /\ disk.folder # "blocked" /\ ~last'.panic =>
           /\ last'.ok /\ Returned.ok /\ Returned.document.pathbuf = Requested
           /\ exists(disk, Requested) => disk' = disk
           /\ ~exists(disk, Requested) =>
                  /\ DOMAIN disk'.files = DOMAIN disk.files \cup {Requested.file}
                  /\ disk'.files[Requested.file] = <<>>
                  /\ \A f \in DOMAIN disk.files : disk'.files[f] = disk.files[f]]_vars

\* C8: a construction that returns a handle returns one whose path exists on return;
\* when the policy's step has run and the final path does not exist, the construction
\* fails with FileNotFound and appends no handle.
C8_HandleExists ==
    [][last'.op = "at_path" /\ ~last'.panic =>
           /\ Returned.ok <=> last'.ok
           /\ Returned.ok =>
                  exists(disk', Returned.document.pathbuf)
           /\ ~Returned.ok /\ Returned.error.kind \notin {"CouldNotCreateParentFolder", "io::Error"}
                  => /\ Returned.error.kind = "FileNotFound"
                     /\ ~exists(disk', PathBuf_from(Returned.error.arg))
           /\ ~Returned.ok => Returned.document = NoDocument]_vars
C8_Witness ==
    /\ Len(documents) = 2
    /\ documents[1].ok /\ exists(disk, documents[1].document.pathbuf)
    /\ ~documents[2].ok /\ documents[2].error.kind = "FileNotFound"
    /\ last.op = "at_path"

\* C9 (as claimed): a dry-run resolution, as suggest_rename runs it, leaves the
\* filesystem unchanged.
C9_DryRunTouchesNothing == [][last'.op = "suggest_rename" => disk' = disk]_vars

\* C10 (as claimed): on a handle, suggest_rename returns the handle's own path when
\* nothing exists there, and otherwise another path at which nothing exists.
C10_SuggestRename ==
    [][last'.op = "suggest_rename" /\ documents[last'.index].ok =>
           IF exists(disk, documents[last'.index].document.pathbuf)
           THEN /\ last'.value # path(documents[last'.index].document.pathbuf)
                /\ Len(last'.value) > 0
                /\ ~exists(disk, PathBuf_from(last'.value))
           ELSE last'.value = path(documents[last'.index].document.pathbuf)]_vars

\* C10, whenever the parent folder of the handle's path can be made: the same
\* statement holds.
C10_UnlessBlocked ==
    [][last'.op = "suggest_rename" /\ documents[last'.index].ok
           /\ disk.folder # "blocked" =>
           IF exists(disk, documents[last'.index].document.pathbuf)
           THEN /\ last'.value # path(documents[last'.index].document.pathbuf)
                /\ Len(last'.value) > 0
                /\ ~exists(disk, PathBuf_from(last'.value))
           ELSE last'.value = path(documents[last'.index].document.pathbuf)]_vars

C12_FailedRenameEmpty ==
    [][last'.op = "suggest_rename" /\ ~documents[last'.index].ok
          => last'.value = <<>>]_vars

\* ------------------------------------------------------------ with and Map
AllOk == \A i \in 1..Len(documents) : documents[i].ok
FirstFailure ==
    CHOOSE i \in 1..Len(documents) :
        ~documents[i].ok /\ \A j \in 1..(i - 1) : documents[j].ok
AliasOf(i) == documents[i].document.alias
\* the closure of the latest with() returns: it looks nothing up, or a key of the map
ClosureReturns ==
    /\ last'.invoked = 1
    /\ last'.arg.access # "none" => last'.arg.key \in DOMAIN last'.map.val

\* C13: when some result of the list is a failure, with() prints the first failure
\* in list order and nothing else, never invokes the closure and hands out no map.
C13_FailureAborts ==
    [][last'.op = "with" /\ ~AllOk =>
           /\ last'.invoked = 0
           /\ last'.map = None
           /\ last'.printed = <<documents[FirstFailure].error>>
           /\ ~last'.panic
           /\ disk' = disk]_vars
C13_Witness ==
    /\ Len(documents) = 3
    /\ documents[1].ok /\ ~documents[2].ok /\ documents[3].ok
    /\ last.op = "with" /\ last.invoked = 0 /\ last.printed = <<documents[2].error>>

\* C14: a handle aliased "_" is neither a key nor a value of the map the closure
\* gets, and its file is still there after with(); every other handle's alias is a
\* key of the map.
C14_UnderscoreSkipped ==
    [][last'.op = "with" /\ last'.invoked = 1 =>
           /\ <<"_">> \notin DOMAIN last'.map.val
           /\ \A k \in DOMAIN last'.map.val : last'.map.val[k].alias # <<"_">>
           /\ \A i \in 1..Len(documents) :
                  /\ AliasOf(i) # <<"_">> => AliasOf(i) \in DOMAIN last'.map.val
                  /\ AliasOf(i) = <<"_">> /\ exists(disk, documents[i].document.pathbuf)
                     => exists(disk', documents[i].document.pathbuf)]_vars
C14_Witness ==
    /\ last.op = "with" /\ last.invoked = 1
    /\ Len(documents) = 2
    /\ AliasOf(1) = <<"_">> /\ documents[1].document.create_policy = "OnlyIfNotExists"
    /\ exists(disk, documents[1].document.pathbuf)
    /\ AliasOf(2) = <<"a">> /\ DOMAIN last.map.val = {<<"a">>}

\* C15: when every result is Ok the closure is invoked once, with a map whose keys
\* are exactly the aliases other than "_", each holding the handle latest in list
\* order under that alias; nothing is printed for a repeated alias.
C15_LastInsertionWins ==
    [][last'.op = "with" /\ AllOk =>
           /\ last'.invoked = 1
           /\ DOMAIN last'.map.val = {AliasOf(i) : i \in 1..Len(documents)} \ {<<"_">>}
           /\ \A i \in 1..Len(documents) :
                  AliasOf(i) # <<"_">> /\ (\A j \in (i + 1)..Len(documents) : AliasOf(j) # AliasOf(i))
                  => last'.map.val[AliasOf(i)] = documents[i].document
           /\ ClosureReturns /\ into_result(last'.arg.return).ok => last'.printed = <<>>]_vars
C15_Witness ==
    /\ last.op = "with" /\ last.invoked = 1
    /\ Len(documents) = 3
    /\ AliasOf(1) = <<"a">> /\ AliasOf(2) = <<"a">> /\ AliasOf(3) = <<"_">>
    /\ documents[1].document.pathbuf # documents[2].document.pathbuf
    /\ last.map.val = (<<"a">> :> documents[2].document)

\* C16: when the closure returns, (), Some(_) and Ok(_) count as success and print
\* nothing, None and Err(e) count as failure and print that one error, and with()
\* returns to its caller either way.
C16_ReturnNormalised ==
    [][last'.op = "with" /\ ClosureReturns =>
           /\ ~last'.panic
           /\ last'.ok <=> last'.arg.return \in {"()", "Some", "Ok"}
           /\ last'.arg.return \in {"()", "Some", "Ok"} => last'.printed = <<>>
           /\ last'.arg.return = "None" => last'.printed = <<NoneError>>
           /\ last'.arg.return = "Err" => last'.printed = <<ClosureError>>
           /\ UNCHANGED <<disk, documents>>]_vars
C16_Witness ==
    /\ last.op = "with" /\ last.invoked = 1 /\ ~last.panic
    /\ last.arg.return = "None" /\ ~last.ok /\ last.printed = <<NoneError>>
    /\ Len(documents) > 0

\* C17: a handle from Document::at has the requested filename as alias, also when
\* the path was renamed; a handle from Document::at_path has the alias given; both
\* store the policy passed in and the path Document::setup returned.
C17_AliasOfConstruction ==
    [][last'.op \in {"at", "at_path"} /\ last'.ok =>
           /\ Returned.ok
           /\ last'.op = "at" => Returned.document.alias = last'.arg
           /\ last'.op = "at_path" => Returned.document.alias = last'.alias
           /\ Returned.document.create_policy = last'.create
           /\ path(Returned.document.pathbuf) = last'.value]_vars
C17_Witness ==
    /\ last.op = "at" /\ last.ok /\ last.create = "AutoRenameIfExists"
    /\ last.arg = PlainFile
    /\ documents[Len(documents)].document.alias = PlainFile
    /\ documents[Len(documents)].document.pathbuf.file = Renamed(1)

\* C18: the alias step on an Ok result changes the alias and nothing else of the
\* handle, on an Err result changes nothing; the other results and the filesystem
\* stay as they were.
C18_AliasOnly ==
    [][last'.op = "alias" =>
           /\ disk' = disk
           /\ Len(documents') = Len(documents)
           /\ \A j \in 1..Len(documents) : j # last'.index => documents'[j] = documents[j]
           /\ IF documents[last'.index].ok
              THEN /\ documents'[last'.index].ok
                   /\ documents'[last'.index].document.alias = last'.arg
                   /\ documents'[last'.index].document.pathbuf
                          = documents[last'.index].document.pathbuf
                   /\ documents'[last'.index].document.create_policy
                          = documents[last'.index].document.create_policy
              ELSE documents'[last'.index] = documents[last'.index]]_vars
C18_Witness ==
    /\ last.op = "alias" /\ last.ok /\ last.arg = <<"_">>
    /\ documents[last.index].document =
           Document(<<"_">>, join(Folder, Renamed(1)), "AutoRenameIfExists")

\* C19: a lookup, read or mutable, by a key of the map returns the handle stored
\* under that key; a lookup by any other key panics.
C19_IndexOrPanic ==
    [][last'.op = "with" /\ last'.invoked = 1 /\ last'.arg.access # "none" =>
           IF last'.arg.key \in DOMAIN last'.map.val
           THEN /\ ~last'.panic
                /\ last'.got = last'.map.val[last'.arg.key]
                /\ last'.got.alias = last'.arg.key
           ELSE last'.panic /\ last'.got = NoDocument]_vars
C19_Witness ==
    /\ last.op = "with" /\ last.invoked = 1 /\ last.panic
    /\ last.arg.access = "index" /\ last.arg.key = PlainFile
    /\ DOMAIN last.map.val = {<<"a">>}

\* two calls that have both returned Ok hold different paths
C20_NeverBoth ==
    \A p, q \in Processes :
        /\ p # q
        /\ resolutions[p].pc = "returned" /\ resolutions[p].result.ok
        /\ resolutions[q].pc = "returned" /\ resolutions[q].result.ok
        => resolutions[p].result.document.pathbuf # resolutions[q].result.document.pathbuf
\* an exclusive create that finds the file already there changes nothing on disk
\* and makes the call return an error at once, with the counter and the path as
\* they were; a call that has returned stays returned
C20_LoserFails ==
    \A p \in Processes :
        /\ resolutions[p].pc = "open" /\ resolutions'[p] # resolutions[p]
           /\ exists(disk, resolutions[p].pathbuf)
           => /\ disk' = disk
              /\ resolutions'[p] = [resolutions[p] EXCEPT !.pc = "returned",
                                                          !.result = Err(IoError)]
        /\ resolutions[p].pc = "returned" => resolutions'[p] = resolutions[p]
\* C20: resolutions of one name that interleave never both return Ok with the
\* same path: the exclusive create of the one that comes second fails, its call
\* returns that error, and it does not go on to a further counter.
C20_ExclusiveCreate == []C20_NeverBoth /\ [][C20_LoserFails]_vars
C20_Witness ==
    \E p, q \in Processes :
        /\ resolutions[p].pc = "returned" /\ resolutions[p].result.ok
        /\ resolutions[p].result.document.pathbuf = join(Folder, PlainFile)
        /\ resolutions[q].pc = "returned" /\ resolutions[q].result = Err(IoError)
        /\ resolutions[q].pathbuf = join(Folder, PlainFile)
        /\ resolutions[q].duplicate_number = 0

\* ------------------------------------------------------------ the decomposer
Parsing == last'.op = "parse_filepath"
\* stem, "(counter)" when a counter was recognised, the extension when one was
Reassembled(parsed) ==
    parsed.name
    \o (IF parsed.duplicate_number.some
        THEN <<"(">> \o to_string(parsed.duplicate_number.val) \o <<")">> ELSE <<>>)
    \o (IF parsed.extension.some THEN parsed.extension.val ELSE <<>>)

\* C23 (as claimed): for stem, n >= 0 and an extension, the decomposer returns stem
\* and the counter n for the filename stem(n)ext.
C23_StemOfCounted ==
    [][\A stem \in {<<"f">>, <<"f", "f">>}, n \in {0, 1, 11}, ext \in {<<".", "f">>, <<".", "1">>} :
           Parsing /\ last'.arg = stem \o <<"(">> \o to_string(n) \o <<")">> \o ext
           => /\ ~last'.panic
              /\ last'.parsed.name = stem
              /\ last'.parsed.duplicate_number = Some(n)
              /\ last'.parsed.extension = Some(ext)]_vars

\* C24 (as claimed): the decomposer returns a decomposition for every filename, and
\* the whole name without counter when the name holds no "(" or no ")".
C24_NoFailureMode ==
    [][Parsing =>
           /\ ~last'.panic
           /\ ~(\E i \in 1..Len(last'.arg) : last'.arg[i] \in {"(", ")", "."})
              => last'.parsed = Parsed(last'.arg, None, None)]_vars

\* C25 (as claimed): for every filename the decomposer returns a decomposition that
\* reassembles to the filename.
C25_Reassembles ==
    [][Parsing => ~last'.panic /\ Reassembled(last'.parsed) = last'.arg]_vars

\* C25, on every filename parse_filepath returns from: the same statement holds.
C25_UnlessPanic ==
    [][Parsing /\ ~last'.panic => Reassembled(last'.parsed) = last'.arg]_vars

\* C26 (as claimed): the extension is the filename from its last "." on, and is
\* absent exactly when the filename holds no "." or ends with its last ".".
C26_ExtensionFromLastDot ==
    [][Parsing =>
           LET dot == rfind(last'.arg, ".")
           IN  IF ~dot.some \/ dot.val = Len(last'.arg) - 1
               THEN last'.extension = None
               ELSE last'.extension = Some(SubSeq(last'.arg, dot.val + 1, Len(last'.arg)))]_vars

\* C26 (amended): the extension is the filename from its last "." on, and is absent
\* exactly when the filename holds no ".", ends with its last ".", or has its last
\* "." as first character; such a name is all stem.
C26_ExtensionAfterStem ==
    [][Parsing =>
           LET dot == rfind(last'.arg, ".")
           IN  IF ~dot.some \/ dot.val = Len(last'.arg) - 1 \/ dot.val = 0
               THEN /\ last'.extension = None
                    /\ ~last'.panic => last'.parsed.extension = None
                    /\ ~last'.panic /\ dot.some /\ dot.val = 0
                          /\ ~(\E i \in 1..Len(last'.arg) : last'.arg[i] \in {"(", ")"})
                       => last'.parsed.name = last'.arg
               ELSE /\ last'.extension = Some(SubSeq(last'.arg, dot.val + 1, Len(last'.arg)))
                    /\ ~last'.panic => last'.parsed.extension = last'.extension]_vars
C26_Witness ==
    /\ last.op = "parse_filepath" /\ last.arg = <<".", "f">>
    /\ last.extension = None /\ last.parsed = Parsed(<<".", "f">>, None, None)

\* C22: each Mode opens the file with its fixed (read, write, append) options: Read
\* (T,F,F), Replace (F,T,F), Append (F,T,T), ReadReplace (T,T,F), ReadAppend (T,T,T);
\* so what appends also writes, every mode reads or writes, and the opened File
\* carries the same options.
C22_ModeTriples ==
    last.op = "file" =>
        /\ <<last.options.read, last.options.write, last.options.append>> =
               CASE last.arg = "Read" -> <<TRUE, FALSE, FALSE>>
                 [] last.arg = "Replace" -> <<FALSE, TRUE, FALSE>>
                 [] last.arg = "Append" -> <<FALSE, TRUE, TRUE>>
                 [] last.arg = "ReadReplace" -> <<TRUE, TRUE, FALSE>>
                 [] last.arg = "ReadAppend" -> <<TRUE, TRUE, TRUE>>
        /\ last.options.append => last.options.write
        /\ last.options.read \/ last.options.write
        /\ last.ok => /\ last.opened.read = last.options.read
                      /\ last.opened.write = last.options.write
                      /\ last.opened.append = last.options.append
C22_Witness ==
    /\ last.op = "file" /\ last.arg = "Append" /\ last.ok
    /\ ~last.opened.read /\ last.opened.write /\ last.opened.append

\* C21: Document::at with a location the machine has no directory for returns the
\* error of that location (PicturesDirNotFound, VideosDirNotFound,
\* DownloadsDirNotFound, DocumentsDirNotFound, UserDirsNotFound or
\* ProjectDirsNotFound) under every policy, and leaves files and folders as they were.
RoleError(location, dirs) ==
    IF dirs = "none"
    THEN IF location \in {"Config", "Data"} THEN "ProjectDirsNotFound" ELSE "UserDirsNotFound"
    ELSE IF dirs = "no_dir" /\ location = "Pictures" THEN "PicturesDirNotFound"
    ELSE IF dirs = "no_dir" /\ location = "Videos" THEN "VideosDirNotFound"
    ELSE IF dirs = "no_dir" /\ location = "Downloads" THEN "DownloadsDirNotFound"
    ELSE IF dirs = "no_dir" /\ location = "Documents" THEN "DocumentsDirNotFound"
    ELSE ""
C21_RoleErrorFirst ==
    [][last'.op = "at" /\ RoleError(last'.location, last'.dirs) # ""
       => /\ ~last'.ok /\ ~last'.panic
          /\ last'.error = DocumentError(RoleError(last'.location, last'.dirs), <<>>)
          /\ documents' = Append(documents, Err(last'.error))
          /\ disk' = disk]_vars
C21_Witness ==
    /\ last.op = "at" /\ last.location = "Videos" /\ last.dirs = "no_dir"
    /\ last.create = "AutoRenameIfExists"
    /\ last.error = DocumentError("VideosDirNotFound", <<>>)
    /\ disk.folder = "absent"

\* the decomposition the claims give the filenames asked for: stem, starting counter
\* (0 when the name carries none) and extension
Carried(file) ==
    IF file = PlainFile THEN [stem |-> <<"f">>, c0 |-> 0, ext |-> <<".", "t">>]
    ELSE IF file = CountedFile THEN [stem |-> <<"f">>, c0 |-> 0, ext |-> <<".", "t">>]
    ELSE [stem |-> <<"f">>, c0 |-> 0, ext |-> <<>>]
\* stem(k)ext in the folder
Candidate(c, k) == join(Folder, c.stem \o <<"(">> \o to_string(k) \o <<")">> \o c.ext)
\* the result is the requested path when nothing is there, and otherwise the
\* candidate of the least counter above c0 at which nothing is
LeastFree(c) ==
    IF ~exists(disk, Requested)
    THEN last'.ok /\ last'.value = last'.arg
    ELSE /\ last'.ok
         /\ \E k \in (c.c0 + 1)..(c.c0 + MaxDocs + MaxFiles + 1) :
                /\ last'.value = path(Candidate(c, k))
                /\ ~exists(disk, Candidate(c, k))
                /\ \A j \in (c.c0 + 1)..(k - 1) : exists(disk, Candidate(c, j))

\* C27 (as claimed): under AutoRenameIfExists, when the folder is there, a request
\* for f.t, f(0).t or f returns the requested path if nothing is at it, and otherwise
\* stem(k)ext for the least k above the counter the name carries with no file.
C27_LeastFreeCounter ==
    [][/\ Constructed("AutoRenameIfExists") /\ disk.folder = "dir"
       /\ Requested.file \in {PlainFile, CountedFile, BareFile}
       => LeastFree(Carried(Requested.file))]_vars

\* C27, for the names that carry no counter: the same statement holds.
C27_UnlessCounted ==
    [][/\ Constructed("AutoRenameIfExists") /\ disk.folder = "dir"
       /\ Requested.file \in {PlainFile, BareFile}
       => LeastFree(Carried(Requested.file))]_vars

\* C28: a construction under AutoRenameIfExists that succeeds adds exactly one file,
\* which is new and empty and is the one it returns, makes the folder when it was
\* missing, and leaves every file that was there in place with the content it had.
C28_OneNewEmptyFile ==
    [][Constructed("AutoRenameIfExists") /\ last'.ok =>
           LET before == IF disk.folder = "dir" THEN DOMAIN disk.files ELSE {}
               new == Returned.document.pathbuf.file
           IN  /\ disk'.folder = "dir"
               /\ new \notin before
               /\ DOMAIN disk'.files = before \cup {new}
               /\ disk'.files[new] = <<>>
               /\ \A f \in before : disk'.files[f] = disk.files[f]]_vars
C28_Witness ==
    /\ last.op = "at_path" /\ last.create = "AutoRenameIfExists" /\ last.ok
    /\ last.arg = InFolder(PlainFile) /\ last.value = InFolder(Renamed(1))
    /\ PlainFile \in DOMAIN disk.files /\ disk.files[PlainFile] = <<"x", "y">>
    /\ disk.files[Renamed(1)] = <<>>

\* ------------------------------------------------------- the collision loop
\* the existence checks a call has made in its loop: one for each turn, and the
\* one that ended it (f.t carries no counter: the count starts at 0)
ExistenceChecks(r) ==
    IF r.pc = "idle" THEN 0
    ELSE IF r.pc = "while" THEN r.duplicate_number
    ELSE r.duplicate_number + 1
\* a call never makes more checks than there are entries, and one
C29_Bounded ==
    \A p \in Processes :
        /\ ExistenceChecks(resolutions[p]) <= Cardinality(DOMAIN disk.files) + 1
        /\ resolutions[p].pc = "while" =>
               resolutions[p].duplicate_number <= Cardinality(DOMAIN disk.files)
\* a turn of the loop raises the counter by one and moves to the candidate of the new
\* counter, which differs from the requested name and every earlier candidate; the
\* loop ends, counter and path as they are, when nothing is at the path
C29_Advances ==
    \A p \in Processes :
        resolutions[p].pc = "while" /\ resolutions'[p] # resolutions[p] =>
            IF exists(disk, resolutions[p].pathbuf)
            THEN /\ resolutions'[p].pc = "while"
                 /\ resolutions'[p].duplicate_number = resolutions[p].duplicate_number + 1
                 /\ resolutions'[p].pathbuf =
                        join(Folder, Renamed(resolutions'[p].duplicate_number))
                 /\ \A j \in 0..resolutions[p].duplicate_number :
                        Renamed(j) # resolutions'[p].pathbuf.file
            ELSE resolutions'[p] = [resolutions[p] EXCEPT !.pc = "open"]
\* a call that is in its loop leaves it and returns
C29_Returns ==
    \A p \in Processes :
        (resolutions[p].pc = "while") ~> (resolutions[p].pc = "returned")
\* C29: the collision loop of AutoRenameIfExists terminates: each turn raises the
\* counter and tries a new candidate, a call makes at most (entries + 1) existence
\* checks, and with other processes creating only finitely many files every call
\* that entered the loop returns.
C29_LoopTerminates == []C29_Bounded /\ [][C29_Advances]_vars /\ C29_Returns
C29_Witness ==
    \E p \in Processes :
        /\ resolutions[p].pc = "returned" /\ resolutions[p].result.ok
        /\ resolutions[p].duplicate_number = 2
        /\ resolutions[p].pathbuf = join(Folder, Renamed(2))
        /\ DOMAIN disk.files = {PlainFile, Renamed(1), Renamed(2)}

\* C30: every result of the list was constructed before with() runs, so the file of
\* every successful entry, before or after the failed one, is on disk when with()
\* aborts on the failure, and with() leaves each of them, and the folder, in place.
C30_NoRollback ==
    [][last'.op = "with" /\ ~AllOk =>
           /\ last'.invoked = 0
           /\ disk'.folder = disk.folder
           /\ \A i \in 1..Len(documents) :
                  documents[i].ok =>
                      /\ exists(disk, documents[i].document.pathbuf)
                      /\ exists(disk', documents[i].document.pathbuf)
                      /\ disk'.files[FileOf(i)] = disk.files[FileOf(i)]]_vars
C30_Witness ==
    /\ last.op = "with" /\ last.invoked = 0
    /\ Len(documents) = 3
    /\ documents[1].ok /\ documents[1].document.create_policy = "OnlyIfNotExists"
    /\ ~documents[2].ok
    /\ documents[3].ok /\ documents[3].document.create_policy = "AutoRenameIfExists"
    /\ FileOf(1) = PlainFile /\ FileOf(3) = Renamed(1)
    /\ disk.folder = "dir" /\ DOMAIN disk.files = {PlainFile, Renamed(1)}

====
